---- MODULE Spec2Model ----
\* A model of src/sex.c: factorial, isPrime, reverseString and the driver main.
\* Every function is a small step machine over its C locals; main calls the
\* three functions through the same actions that the per-function
\* specifications (SpecFact, SpecPrime, SpecReverse) exercise on drawn inputs.
EXTENDS Integers, Sequences, FiniteSets, TLC

VARIABLES
    pc,       \* main: the statement main executes next ("idle" outside main)
    locals,   \* main: the locals in scope, name -> value
    text,     \* the character buffer reverseString works on (main's text[])
    out,      \* standard output: the text of every printf call, in order
    status,   \* main's return value once it has returned
    ncalls,   \* ghost: how often main called each function
    visits,   \* ghost: how often the summing loop read each index of numbers[]
    fact,     \* factorial: the activation stack and the value being returned
    prime,    \* isPrime: its locals
    rev       \* reverseString: its locals, and the indices it has dereferenced

vars == <<pc, locals, text, out, status, ncalls, visits, fact, prime, rev>>

----------------------------------------------------------------------------
\* The int type: 32 bits, two's complement.

IntMax == 2147483647

IntMin == -IntMax - 1

\* a * b leaves the range of int; both operands are positive wherever the
\* program multiplies (i >= 5 in isPrime; n >= 2 and a factorial >= 1).
MulOverflows(a, b) == a > 0 /\ b > 0 /\ a > IntMax \div b

\* a + b leaves the range of int, for b >= 0.
AddOverflows(a, b) == a > IntMax - b

\* What a build may leave in an int after signed overflow: any value; these
\* stand for the negative, zero, positive and extreme ones.
UndefinedInts == {IntMin, -1, 0, 1, IntMax}

\* C's integer division truncates towards zero (b > 0 here).
CDiv(a, b) == IF a >= 0 THEN a \div b ELSE -((-a) \div b)

----------------------------------------------------------------------------
\* Bounds of the inputs the per-function specifications draw.

FactMaxN == 14

FactMinSpan == 3

MaxNum == 200

TopSpan == 20

MaxLen == 4

----------------------------------------------------------------------------
\* factorial (lines 6-13).  fact.stack holds the n of every activation, the
\* innermost last; fact.pc is "call" when the innermost activation is at line
\* 8 and "ret" when its callee has just returned fact.ret to line 12.

FactIdle == [pc |-> "idle", arg |-> 0, stack |-> <<>>, ret |-> 0, calls |-> 0,
             steps |-> 0, ub |-> FALSE]

\* A call factorial(n) from outside.
FactStart(n) == [pc |-> "call", arg |-> n, stack |-> <<n>>, ret |-> 0,
                 calls |-> 0, steps |-> 0, ub |-> FALSE]

FactBaseCase_Strict(n) == n < 1

\* line 8: if (n <= 1)
FactBaseCase(n) == n <= 1

FactProduct_Sum(n, r) == n + r

\* line 12: n * factorial(n - 1), given what the callee returned
FactProduct(n, r) == n * r

\* The activation below the innermost one resumes, or the outermost returns.
FactPop(f, r) ==
    [f EXCEPT !.stack = SubSeq(f.stack, 1, Len(f.stack) - 1),
              !.ret = r,
              !.steps = f.steps + 1,
              !.pc = IF Len(f.stack) = 1 THEN "done" ELSE "ret"]

FactOthers == <<pc, locals, text, out, status, ncalls, visits, prime, rev>>

\* lines 8-11: the base case returns 1
FactBase ==
    /\ fact.pc = "call"
    /\ FactBaseCase(fact.stack[Len(fact.stack)])
    /\ fact' = FactPop(fact, 1)
    /\ UNCHANGED FactOthers

\* line 12, first half: evaluate n - 1 and call factorial on it
FactRecurse ==
    /\ fact.pc = "call"
    /\ ~FactBaseCase(fact.stack[Len(fact.stack)])
    /\ LET n == fact.stack[Len(fact.stack)]
       IN  fact' = [fact EXCEPT !.stack = Append(fact.stack, n - 1),
                                !.calls = fact.calls + 1,
                                !.steps = fact.steps + 1]
    /\ UNCHANGED FactOthers

\* line 12, second half: multiply and return; the product of two ints that
\* does not fit an int is undefined behaviour
FactMultiply ==
    /\ fact.pc = "ret"
    /\ LET n == fact.stack[Len(fact.stack)]
       IN  IF MulOverflows(n, fact.ret)
           THEN \E r \in UndefinedInts :
                    fact' = [fact EXCEPT !.pc = "done", !.ub = TRUE,
                                         !.stack = <<>>, !.ret = r,
                                         !.steps = fact.steps + 1]
           ELSE fact' = FactPop(fact, FactProduct(n, fact.ret))
    /\ UNCHANGED FactOthers

FactNext == FactBase \/ FactRecurse \/ FactMultiply

----------------------------------------------------------------------------
\* isPrime (lines 16-33).

PrimeIdle == [pc |-> "idle", num |-> 0, i |-> 0, ret |-> 0, iters |-> 0,
              ub |-> FALSE]

\* A call isPrime(num) from outside.
PrimeStart(num) == [pc |-> "entry", num |-> num, i |-> 0, ret |-> 0,
                    iters |-> 0, ub |-> FALSE]

PrimeReturn(p, r) == [p EXCEPT !.pc = "done", !.ret = r]

\* Signed overflow in the loop: undefined behaviour. The builds that return
\* at all return either answer.
PrimeUndefined(p) == {[p EXCEPT !.pc = "done", !.ub = TRUE, !.ret = r] : r \in {0, 1}}

\* line 18: if (num <= 1)
PrimeSmall(num) == num <= 1

\* line 22: num % 2 == 0 || num % 3 == 0
PrimeEven(num) == num % 2 = 0 \/ num % 3 = 0

\* line 25: i * i <= num, given that the product fits
PrimeGuard(i, num) == i * i <= num

PrimeDivides_OnlyMinus1(num, i) == num % i = 0

\* line 27: num % i == 0 || num % (i + 2) == 0
PrimeDivides(num, i) == num % i = 0 \/ num % (i + 2) = 0

PrimeOthers == <<pc, locals, text, out, status, ncalls, visits, fact, rev>>

\* lines 18-23, and the loop's initialisation int i = 5
PrimeEntry ==
    /\ prime.pc = "entry"
    /\ prime' = IF PrimeSmall(prime.num) THEN PrimeReturn(prime, 0)
                ELSE IF prime.num <= 3 THEN PrimeReturn(prime, 1)
                ELSE IF PrimeEven(prime.num) THEN PrimeReturn(prime, 0)
                ELSE [prime EXCEPT !.pc = "loop", !.i = 5]
    /\ UNCHANGED PrimeOthers

\* lines 25-32: one turn of the loop: the guard i * i <= num, the body, and
\* i += 6; or, the guard failing, return 1
PrimeLoop ==
    /\ prime.pc = "loop"
    /\ LET i == prime.i
           num == prime.num
       IN  IF MulOverflows(i, i) THEN prime' \in PrimeUndefined(prime)
           ELSE IF ~PrimeGuard(i, num) THEN prime' = PrimeReturn(prime, 1)
           ELSE IF AddOverflows(i, 2) THEN prime' \in PrimeUndefined(prime)
           ELSE IF PrimeDivides(num, i) THEN prime' = PrimeReturn(prime, 0)
           ELSE IF AddOverflows(i, 6) THEN prime' \in PrimeUndefined(prime)
           ELSE prime' = [prime EXCEPT !.i = i + 6, !.iters = prime.iters + 1]
    /\ UNCHANGED PrimeOthers

PrimeNext == PrimeEntry \/ PrimeLoop

----------------------------------------------------------------------------
\* reverseString (lines 36-45).  A buffer is a function from the indices
\* 0..len to characters (their codes), the terminator 0 at index len.

\* "Hello World", the initialiser of main's text[] (line 61)
HelloWorld == <<72, 101, 108, 108, 111, 32, 87, 111, 114, 108, 100>>

\* The array a string literal initialises: its characters and the terminator.
CString(s) == [k \in 0..Len(s) |-> IF k < Len(s) THEN s[k + 1] ELSE 0]

\* strlen: the index of the first terminator.
strlen(buf) == CHOOSE k \in DOMAIN buf :
                   buf[k] = 0 /\ \A j \in 0..(k - 1) : buf[j] # 0

RevIdle == [pc |-> "idle", len |-> 0, i |-> 0, temp |-> 0, iters |-> 0,
            touched |-> {}, writes |-> <<>>, ub |-> FALSE, calls |-> 0,
            orig |-> <<>>, before |-> <<>>]

\* A call reverseString(buf), the calls-th on a buffer that first held orig.
RevStart(buf, calls, orig) ==
    [pc |-> "L38", len |-> 0, i |-> 0, temp |-> 0, iters |-> 0,
     touched |-> {}, writes |-> [k \in DOMAIN buf |-> 0], ub |-> FALSE,
     calls |-> calls, orig |-> orig, before |-> buf]

RevContinue_Whole(i, len) == i < len

RevContinue_RoundedUp(i, len) == i < CDiv(len + 1, 2)

\* line 39: i < len / 2
RevContinue(i, len) == i < CDiv(len, 2)

RevMirror_OffByOne(len, i) == len - i

\* lines 42-43: len - 1 - i
RevMirror(len, i) == len - 1 - i

\* Dereferencing an index outside the buffer is undefined behaviour.
RevOutOfBounds(ks) ==
    rev' = [rev EXCEPT !.pc = "done", !.ub = TRUE,
                       !.touched = rev.touched \cup ks]

RevOthers == <<pc, locals, out, status, ncalls, visits, fact, prime>>

\* line 38, and the loop's initialisation int i = 0
RevStrlen ==
    /\ rev.pc = "L38"
    /\ rev' = [rev EXCEPT !.pc = "L39", !.len = strlen(text), !.i = 0]
    /\ UNCHANGED <<text, RevOthers>>

\* line 39: the loop's guard; the function returns when it fails
RevGuard ==
    /\ rev.pc = "L39"
    /\ rev' = [rev EXCEPT !.pc = IF RevContinue(rev.i, rev.len)
                                 THEN "L41" ELSE "done"]
    /\ UNCHANGED <<text, RevOthers>>

\* line 41: char temp = str[i];
RevLoad ==
    /\ rev.pc = "L41"
    /\ IF rev.i \in DOMAIN text
       THEN rev' = [rev EXCEPT !.pc = "L42", !.temp = text[rev.i],
                               !.touched = rev.touched \cup {rev.i}]
       ELSE RevOutOfBounds({rev.i})
    /\ UNCHANGED <<text, RevOthers>>

\* line 42: str[i] = str[len - 1 - i];
RevStoreLow ==
    /\ rev.pc = "L42"
    /\ LET j == RevMirror(rev.len, rev.i)
       IN  IF {rev.i, j} \subseteq DOMAIN text
           THEN /\ text' = [text EXCEPT ![rev.i] = text[j]]
                /\ rev' = [rev EXCEPT !.pc = "L43",
                              !.touched = rev.touched \cup {rev.i, j},
                              !.writes[rev.i] = rev.writes[rev.i] + 1]
           ELSE /\ RevOutOfBounds({rev.i, j})
                /\ UNCHANGED text
    /\ UNCHANGED RevOthers

\* line 43: str[len - 1 - i] = temp;
RevStoreHigh ==
    /\ rev.pc = "L43"
    /\ LET j == RevMirror(rev.len, rev.i)
       IN  IF j \in DOMAIN text
           THEN /\ text' = [text EXCEPT ![j] = rev.temp]
                /\ rev' = [rev EXCEPT !.pc = "L39i",
                              !.touched = rev.touched \cup {j},
                              !.writes[j] = rev.writes[j] + 1]
           ELSE /\ RevOutOfBounds({j})
                /\ UNCHANGED text
    /\ UNCHANGED RevOthers

\* line 39: i++
RevIncr ==
    /\ rev.pc = "L39i"
    /\ rev' = [rev EXCEPT !.pc = "L39", !.i = rev.i + 1,
                          !.iters = rev.iters + 1]
    /\ UNCHANGED <<text, RevOthers>>

RevNext == RevStrlen \/ RevGuard \/ RevLoad \/ RevStoreLow \/ RevStoreHigh \/ RevIncr

----------------------------------------------------------------------------
\* printf's conversions.

Digit == <<"0", "1", "2", "3", "4", "5", "6", "7", "8", "9">>

\* The characters with codes 32 (space) to 95.
PrintableLow == <<
     " ", "!", "\"", "#", "$", "%", "&", "'", "(", ")", "*", "+", ",", "-", ".", "/",
     "0", "1", "2", "3", "4", "5", "6", "7", "8", "9", ":", ";", "<", "=", ">", "?",
     "@", "A", "B", "C", "D", "E", "F", "G", "H", "I", "J", "K", "L", "M", "N", "O",
     "P", "Q", "R", "S", "T", "U", "V", "W", "X", "Y", "Z", "[", "\\", "]", "^", "_" >>

\* The characters with codes 97 (a) to 126.
PrintableHigh == <<
     "a", "b", "c", "d", "e", "f", "g", "h", "i", "j", "k", "l", "m", "n", "o",
     "p", "q", "r", "s", "t", "u", "v", "w", "x", "y", "z", "{", "|", "}", "~" >>

\* %c: the character with code c (a printable one other than the grave
\* accent, code 96, which a TLA+ string cannot hold)
Chr(c) == IF c < 96 THEN PrintableLow[c - 31] ELSE PrintableHigh[c - 96]

RECURSIVE NatToStr(_)
NatToStr(n) == IF n < 10 THEN Digit[n + 1]
               ELSE NatToStr(n \div 10) \o Digit[(n % 10) + 1]

\* %d
IntToStr(n) == IF n < 0 THEN "-" \o NatToStr(-n) ELSE NatToStr(n)

RECURSIVE StrFrom(_, _)
StrFrom(buf, k) == IF buf[k] = 0 THEN ""
                   ELSE Chr(buf[k]) \o StrFrom(buf, k + 1)

\* %s: the characters up to the terminator
StrOf(buf) == StrFrom(buf, 0)

\* %.2f of (float)sum / size, for sum >= 0 and size > 0: the quotient rounded
\* to hundredths, ties to even
Fixed2(sum, size) ==
    LET h == (sum * 100) \div size
        r == (sum * 100) % size
        c == IF 2 * r > size \/ (2 * r = size /\ h % 2 = 1) THEN h + 1 ELSE h
    IN  IntToStr(c \div 100) \o "." \o Digit[((c % 100) \div 10) + 1]
                             \o Digit[(c % 10) + 1]

YesNo_Inverted(r) == IF r # 0 THEN "No" ELSE "Yes"

\* line 58: isPrime(testNum) ? "Yes" : "No"
YesNo(r) == IF r # 0 THEN "Yes" ELSE "No"

----------------------------------------------------------------------------
\* main (lines 47-90).  pc names the line of the statement executed next.

NoObject == [x \in {} |-> 0]

Bind(l, name, v) == [x \in DOMAIN l \cup {name} |-> IF x = name THEN v ELSE l[x]]

Unbind(l, name) == [x \in DOMAIN l \ {name} |-> l[x]]

\* An array with the elements of seq, indexed from 0.
CArray(seq) == [k \in 0..(Len(seq) - 1) |-> seq[k + 1]]

\* line 75: the initialiser of numbers[]
NumbersInit == <<3, 7, 1, 9, 4, 6, 2, 8, 5>>

CountGuard_Exclusive(i) == i < 10

\* line 68: i <= 10
CountGuard(i) == i <= 10

\* line 70: printf("%d ", i)
PrintNumber(i) == IntToStr(i) \o " "

SumGuard_Inclusive(i, size) == i <= size

\* line 79: i < size
SumGuard(i, size) == i < size

\* line 81: sum += numbers[i]
SumAdd(sum, x) == sum + x

\* A statement of main that writes s to standard output and touches nothing else.
MainPrint(from, to, s) ==
    /\ pc = from
    /\ pc' = to
    /\ out' = Append(out, s)
    /\ UNCHANGED <<locals, text, status, ncalls, visits, fact, prime, rev>>

\* A statement of main that declares or assigns the local name.
MainAssign(from, to, name, v) ==
    /\ pc = from
    /\ pc' = to
    /\ locals' = Bind(locals, name, v)
    /\ UNCHANGED <<text, out, status, ncalls, visits, fact, prime, rev>>

Main49 == MainPrint("L49", "L50", "Welcome to the C Programming Demo!\n")

Main50 == MainPrint("L50", "L53", "===================================\n\n")

Main53 == MainAssign("L53", "L54", "num", 5)

\* line 54: the call factorial(num)
Main54Call ==
    /\ pc = "L54"
    /\ pc' = "L54r"
    /\ fact' = FactStart(locals["num"])
    /\ ncalls' = [ncalls EXCEPT !.factorial = @ + 1]
    /\ UNCHANGED <<locals, text, out, status, visits, prime, rev>>

\* line 54: the printf of the returned value
Main54Print ==
    /\ fact.pc = "done"
    /\ MainPrint("L54r", "L57",
                 "1. Factorial of " \o IntToStr(locals["num"]) \o ": "
                     \o IntToStr(fact.ret) \o "\n")

Main57 == MainAssign("L57", "L58", "testNum", 17)

\* line 58: the call isPrime(testNum)
Main58Call ==
    /\ pc = "L58"
    /\ pc' = "L58r"
    /\ prime' = PrimeStart(locals["testNum"])
    /\ ncalls' = [ncalls EXCEPT !.isPrime = @ + 1]
    /\ UNCHANGED <<locals, text, out, status, visits, fact, rev>>

Main58Print ==
    /\ prime.pc = "done"
    /\ MainPrint("L58r", "L61",
                 "2. Is " \o IntToStr(locals["testNum"]) \o " prime? "
                     \o YesNo(prime.ret) \o "\n")

\* line 61: char text[] = "Hello World";
Main61 ==
    /\ pc = "L61"
    /\ pc' = "L62"
    /\ text' = CString(HelloWorld)
    /\ UNCHANGED <<locals, out, status, ncalls, visits, fact, prime, rev>>

Main62 ==
    /\ pc = "L62"
    /\ MainPrint("L62", "L63", "3. Original string: " \o StrOf(text) \o "\n")

\* line 63: the call reverseString(text)
Main63Call ==
    /\ pc = "L63"
    /\ pc' = "L63r"
    /\ rev' = RevStart(text, 1, text)
    /\ ncalls' = [ncalls EXCEPT !.reverseString = @ + 1]
    /\ UNCHANGED <<locals, text, out, status, visits, fact, prime>>

\* line 64, once reverseString has returned
Main64 ==
    /\ pc = "L63r"
    /\ rev.pc = "done"
    /\ MainPrint("L63r", "L67", "   Reversed string: " \o StrOf(text) \o "\n")

Main67 == MainPrint("L67", "L68", "4. Numbers 1-10: ")

Main68Init == MainAssign("L68", "L68g", "i", 1)

\* line 68: the guard; i leaves scope when it fails
Main68Guard ==
    /\ pc = "L68g"
    /\ IF CountGuard(locals["i"])
       THEN pc' = "L70" /\ locals' = locals
       ELSE pc' = "L72" /\ locals' = Unbind(locals, "i")
    /\ UNCHANGED <<text, out, status, ncalls, visits, fact, prime, rev>>

Main70 ==
    /\ pc = "L70"
    /\ MainPrint("L70", "L68i", PrintNumber(locals["i"]))

Main68Incr ==
    /\ pc = "L68i"
    /\ MainAssign("L68i", "L68g", "i", locals["i"] + 1)

Main72 == MainPrint("L72", "L75", "\n")

\* line 75: int numbers[] = {3, 7, 1, 9, 4, 6, 2, 8, 5};
Main75 ==
    /\ pc = "L75"
    /\ pc' = "L76"
    /\ locals' = Bind(locals, "numbers", CArray(NumbersInit))
    /\ visits' = [k \in DOMAIN CArray(NumbersInit) |-> 0]
    /\ UNCHANGED <<text, out, status, ncalls, fact, prime, rev>>

\* line 76: sizeof(numbers) / sizeof(numbers[0]), an int being 4 bytes
Main76 ==
    /\ pc = "L76"
    /\ MainAssign("L76", "L77", "size",
                  (4 * Cardinality(DOMAIN locals["numbers"])) \div 4)

Main77 == MainAssign("L77", "L79", "sum", 0)

Main79Init == MainAssign("L79", "L79g", "i", 0)

\* line 79: the guard; i leaves scope when it fails
Main79Guard ==
    /\ pc = "L79g"
    /\ IF SumGuard(locals["i"], locals["size"])
       THEN pc' = "L81" /\ locals' = locals
       ELSE pc' = "L84" /\ locals' = Unbind(locals, "i")
    /\ UNCHANGED <<text, out, status, ncalls, visits, fact, prime, rev>>

\* line 81: sum += numbers[i]; reading past the array is undefined behaviour
Main81 ==
    /\ pc = "L81"
    /\ LET i == locals["i"]
       IN  IF i \in DOMAIN locals["numbers"]
           THEN /\ pc' = "L79i"
                /\ locals' = Bind(locals, "sum",
                                  SumAdd(locals["sum"], locals["numbers"][i]))
                /\ visits' = [visits EXCEPT ![i] = @ + 1]
           ELSE /\ pc' = "L79i"
                /\ \E v \in UndefinedInts : locals' = Bind(locals, "sum", v)
                /\ visits' = visits
    /\ UNCHANGED <<text, out, status, ncalls, fact, prime, rev>>

Main79Incr ==
    /\ pc = "L79i"
    /\ MainAssign("L79i", "L79g", "i", locals["i"] + 1)

Main84 ==
    /\ pc = "L84"
    /\ MainPrint("L84", "L85", "5. Array sum: " \o IntToStr(locals["sum"]) \o "\n")

Main85 ==
    /\ pc = "L85"
    /\ MainPrint("L85", "L87",
                 "   Array average: " \o Fixed2(locals["sum"], locals["size"]) \o "\n")

Main87 == MainPrint("L87", "L89", "\nProgram completed successfully!\n")

\* line 89: return 0;
Main89 ==
    /\ pc = "L89"
    /\ pc' = "exit"
    /\ status' = <<0>>
    /\ UNCHANGED <<locals, text, out, ncalls, visits, fact, prime, rev>>

main ==
    \/ Main49 \/ Main50 \/ Main53 \/ Main54Call \/ Main54Print
    \/ Main57 \/ Main58Call \/ Main58Print
    \/ Main61 \/ Main62 \/ Main63Call \/ Main64
    \/ Main67 \/ Main68Init \/ Main68Guard \/ Main70 \/ Main68Incr \/ Main72
    \/ Main75 \/ Main76 \/ Main77
    \/ Main79Init \/ Main79Guard \/ Main81 \/ Main79Incr
    \/ Main84 \/ Main85 \/ Main87 \/ Main89

----------------------------------------------------------------------------
\* The program: main from its first statement.

Init ==
    /\ pc = "L49"
    /\ locals = NoObject
    /\ text = NoObject
    /\ out = <<>>
    /\ status = <<>>
    /\ ncalls = [factorial |-> 0, isPrime |-> 0, reverseString |-> 0]
    /\ visits = NoObject
    /\ fact = FactIdle
    /\ prime = PrimeIdle
    /\ rev = RevIdle

Next == main \/ FactNext \/ PrimeNext \/ RevNext

\* One thread runs to completion: a step that can be taken is taken.
Spec == Init /\ [][Next]_vars /\ WF_vars(Next)

----------------------------------------------------------------------------
\* Each function on its own: a caller outside main that passes one argument
\* drawn from a bounded set, main's own state staying idle.

MainIdle ==
    /\ pc = "idle"
    /\ locals = NoObject
    /\ out = <<>>
    /\ status = <<>>
    /\ ncalls = [factorial |-> 0, isPrime |-> 0, reverseString |-> 0]
    /\ visits = NoObject

\* The arguments passed to factorial: negative, 0, 1, and up past the
\* largest n whose factorial fits an int.
FactInputs == (-FactMinSpan)..FactMaxN

InitFact ==
    /\ MainIdle
    /\ text = NoObject
    /\ \E n \in FactInputs : fact = FactStart(n)
    /\ prime = PrimeIdle
    /\ rev = RevIdle

SpecFact == InitFact /\ [][FactNext]_vars /\ WF_vars(FactNext)

\* The arguments passed to isPrime: the integers around 0, and those at both
\* ends of the range of int.
PrimeInputs ==
    ((-MaxNum)..MaxNum) \cup {IntMax - k : k \in 0..TopSpan}
                        \cup {IntMin + k : k \in 0..TopSpan}

InitPrime ==
    /\ MainIdle
    /\ text = NoObject
    /\ fact = FactIdle
    /\ \E num \in PrimeInputs : prime = PrimeStart(num)
    /\ rev = RevIdle

SpecPrime == InitPrime /\ [][PrimeNext]_vars /\ WF_vars(PrimeNext)

\* The characters of the drawn strings: a, b, c.
Alphabet == {97, 98, 99}

\* The buffers passed to reverseString: every string over Alphabet of length
\* 0..MaxLen, and main's "Hello World".
RevInputs ==
    {CString(s) : s \in UNION {[1..n -> Alphabet] : n \in 0..MaxLen}}
        \cup {CString(HelloWorld)}

InitReverse ==
    /\ MainIdle
    /\ text \in RevInputs
    /\ fact = FactIdle
    /\ prime = PrimeIdle
    /\ rev = RevStart(text, 1, text)

\* The caller passes the reversed buffer to reverseString a second time.
RevAgain ==
    /\ pc = "idle"
    /\ rev.pc = "done"
    /\ rev.calls = 1
    /\ rev' = RevStart(text, 2, rev.orig)
    /\ UNCHANGED <<text, RevOthers>>

ReverseNext == RevNext \/ RevAgain

SpecReverse == InitReverse /\ [][ReverseNext]_vars /\ WF_vars(ReverseNext)

----------------------------------------------------------------------------
\* What the claims are stated against.

Max(a, b) == IF a >= b THEN a ELSE b

Min(a, b) == IF a <= b THEN a ELSE b

\* The positive divisors of n, for n >= 1.
Divisors(n) == {d \in 1..n : n % d = 0}

\* n is prime. A composite n has a divisor d with d * d <= n, and no int has
\* a square root above 46340, so these d decide it for every int.
IsPrimeInt(n) == n > 1 /\ \A d \in 2..Min(n - 1, 46340) : n % d # 0

\* n!, for n >= 0
RECURSIVE Factorial(_)
Factorial(n) == IF n <= 1 THEN 1 ELSE n * Factorial(n - 1)

\* n! fits an int
RECURSIVE FactorialFits(_)
FactorialFits(n) ==
    n <= 1 \/ (FactorialFits(n - 1) /\ Factorial(n - 1) <= IntMax \div n)

RECURSIVE Concat(_)
Concat(seq) == IF seq = <<>> THEN "" ELSE Head(seq) \o Concat(Tail(seq))

\* How often character c occurs in a buffer.
Occurrences(buf, c) == Cardinality({k \in DOMAIN buf : buf[k] = c})

----------------------------------------------------------------------------
\* C1 (SpecPrime): for every num of the bounded range -MaxNum..MaxNum,
\* isPrime(num) returns non-zero exactly when num > 1 and the only divisors of
\* num are 1 and num; it returns 0 for every num <= 1, non-zero for 17 and 0
\* for 18.
C1_IsPrimeCorrect ==
    (prime.pc = "done" /\ prime.num \in (-MaxNum)..MaxNum) =>
        /\ ~prime.ub
        /\ prime.ret \in {0, 1}
        /\ (prime.ret # 0) <=>
               (prime.num > 1 /\ Divisors(prime.num) = {1, prime.num})
        /\ (prime.num <= 1 => prime.ret = 0)
        /\ (prime.num = 17 => prime.ret # 0)
        /\ (prime.num = 18 => prime.ret = 0)

\* C1: isPrime(169) has returned 0 from the second turn of its loop.
C1_Witness ==
    prime.pc = "done" /\ prime.num = 169 /\ prime.iters = 1 /\ prime.ret = 0

\* C2 (SpecPrime): for every int num, those next to the largest int included,
\* no value computed in the loop (i * i, i + 2, i + 6) leaves the range of
\* int, the call ends, and isPrime(num) returns non-zero exactly when num is
\* prime.
C2_CompleteForEveryInt ==
    /\ ~prime.ub
    /\ prime.pc = "done" \/ ENABLED PrimeNext
    /\ prime.pc = "done" => ((prime.ret # 0) <=> IsPrimeInt(prime.num))

----------------------------------------------------------------------------
\* C3 (SpecFact): factorial(n) returns 1 for n in {0, 1}; for n >= 2 whose
\* factorial fits an int it returns n!, that is n * (n-1)!, and 120 for n = 5;
\* a call with n >= 2 makes exactly n - 1 recursive calls; every call ends,
\* within 2 * max(n, 1) - 1 steps.
C3_Factorial ==
    LET n == fact.arg
    IN  /\ fact.steps <= 2 * Max(n, 1) - 1
        /\ fact.pc = "done" \/ ENABLED FactNext
        /\ (fact.pc = "done" /\ n \in {0, 1}) => (~fact.ub /\ fact.ret = 1)
        /\ (fact.pc = "done" /\ n >= 2 /\ FactorialFits(n)) =>
               /\ ~fact.ub
               /\ fact.ret = n * Factorial(n - 1)
               /\ fact.ret = Factorial(n)
        /\ (fact.pc = "done" /\ n >= 2) => fact.calls = n - 1
        /\ (fact.pc = "done" /\ n = 5) => fact.ret = 120

\* C3: factorial(12), the largest that fits, has returned 12! after 11
\* recursive calls.
C3_Witness ==
    fact.pc = "done" /\ fact.arg = 12 /\ fact.ret = 479001600 /\ fact.calls = 11

\* C9 (SpecFact): for n <= 1, negative n included, factorial(n) returns 1 from
\* the base case in its first step: no recursive call, no activation for any
\* other n, no undefined behaviour, and nothing outside the call is changed.
C9_BaseCaseOnly ==
    fact.arg <= 1 =>
        /\ fact.calls = 0
        /\ ~fact.ub
        /\ \A k \in 1..Len(fact.stack) : k = 1 /\ fact.stack[k] = fact.arg
        /\ fact.pc = "call" => ENABLED FactBase /\ ~ENABLED FactRecurse
        /\ fact.pc \in {"call", "done"}
        /\ fact.pc = "done" => (fact.ret = 1 /\ fact.steps = 1)
        /\ out = <<>> /\ text = NoObject /\ locals = NoObject

\* C9: factorial of a negative n has returned 1.
C9_Witness ==
    fact.pc = "done" /\ fact.arg = -FactMinSpan /\ fact.ret = 1 /\ fact.calls = 0

----------------------------------------------------------------------------
\* C4 (SpecReverse): after reverseString on a buffer holding s of length len,
\* the character at every index k of 0..len-1 is the one s had at len-1-k;
\* "Hello World" becomes "dlroW olleH"; the loop made exactly len / 2
\* (rounded down) swaps.
C4_Reversed ==
    (rev.pc = "done" /\ rev.calls = 1) =>
        LET len == strlen(rev.orig)
        IN  /\ ~rev.ub
            /\ DOMAIN text = DOMAIN rev.orig
            /\ \A k \in 0..(len - 1) : text[k] = rev.orig[len - 1 - k]
            /\ rev.iters = len \div 2
            /\ rev.orig = CString(HelloWorld) => StrOf(text) = "dlroW olleH"

\* C4: reverseString has turned "Hello World" into "dlroW olleH" in 5 swaps.
C4_Witness ==
    /\ rev.pc = "done" /\ rev.calls = 1 /\ rev.iters = 5
    /\ StrOf(rev.orig) = "Hello World" /\ StrOf(text) = "dlroW olleH"

\* C5 (SpecReverse): two calls of reverseString in succession leave the buffer
\* as it was before the first, for even and for odd lengths.
C5_Involution ==
    (rev.pc = "done" /\ rev.calls = 2) => (~rev.ub /\ text = rev.orig)

\* C5: the second call has returned on a buffer that held "abc" (odd length)
\* and was "cba" in between.
C5_Witness ==
    /\ rev.pc = "done" /\ rev.calls = 2
    /\ StrOf(rev.orig) = "abc" /\ StrOf(rev.before) = "cba" /\ StrOf(text) = "abc"

----------------------------------------------------------------------------
\* What main is to write, one element for every printf call.
ExpectedOutput ==
    << "Welcome to the C Programming Demo!\n",
       "===================================\n\n",
       "1. Factorial of 5: 120\n",
       "2. Is 17 prime? Yes\n",
       "3. Original string: Hello World\n",
       "   Reversed string: dlroW olleH\n",
       "4. Numbers 1-10: ",
       "1 ", "2 ", "3 ", "4 ", "5 ", "6 ", "7 ", "8 ", "9 ", "10 ",
       "\n",
       "5. Array sum: 45\n",
       "   Array average: 5.00\n",
       "\nProgram completed successfully!\n" >>

IsPrefix(a, b) == Len(a) <= Len(b) /\ a = SubSeq(b, 1, Len(a))

\* C6 (Spec): main writes the banner, the factorial of 5, the primality of
\* 17, the original and the reversed string, the numbers, the sum and the
\* average and the completion message, each once and in this order, calling
\* each function once; until it has returned it can always take a step, and
\* it does return, with status 0 and no other.
C6_Driver ==
    /\ [](/\ IsPrefix(out, ExpectedOutput)
          /\ \A f \in DOMAIN ncalls : ncalls[f] <= 1
          /\ ~fact.ub /\ ~prime.ub /\ ~rev.ub
          /\ status \in {<<>>, <<0>>}
          /\ pc # "exit" => (status = <<>> /\ ENABLED Next)
          /\ pc = "exit" =>
                 /\ out = ExpectedOutput
                 /\ status = <<0>>
                 /\ \A f \in DOMAIN ncalls : ncalls[f] = 1)
    /\ <>[](pc = "exit" /\ status = <<0>>)

\* C6: main has returned 0 having written all 23 pieces of its output.
C6_Witness ==
    pc = "exit" /\ status = <<0>> /\ Len(out) = Len(ExpectedOutput)
                /\ out[Len(out)] = "\nProgram completed successfully!\n"

\* The statements of main after the summing loop.
AfterSum == {"L84", "L85", "L87", "L89", "exit"}

\* C7 (Spec): the summing loop reads each of the 9 elements of
\* {3,7,1,9,4,6,2,8,5} exactly once, size being 9, and ends with sum = 45;
\* the array is never modified; sum / size is exactly 5 and is printed 5.00.
C7_SumAndAverage ==
    /\ "numbers" \in DOMAIN locals =>
           /\ locals["numbers"] = CArray(<<3, 7, 1, 9, 4, 6, 2, 8, 5>>)
           /\ \A k \in DOMAIN visits : visits[k] <= 1
    /\ "size" \in DOMAIN locals => locals["size"] = 9
    /\ pc \in AfterSum =>
           /\ locals["sum"] = 45
           /\ visits = [k \in 0..8 |-> 1]
           /\ locals["sum"] % locals["size"] = 0
           /\ locals["sum"] \div locals["size"] = 5
    /\ pc = "L85" => out[Len(out)] = "5. Array sum: 45\n"
    /\ pc = "L87" => out[Len(out)] = "   Array average: 5.00\n"

\* C7: the loop has ended with sum = 45 and the average has been printed.
C7_Witness ==
    /\ pc = "L87" /\ locals["sum"] = 45 /\ locals["size"] = 9
    /\ out[Len(out)] = "   Array average: 5.00\n"

\* What the counting loop has written: the output after "4. Numbers 1-10: ".
CountingText ==
    LET k == CHOOSE j \in 1..Len(out) : out[j] = "4. Numbers 1-10: "
    IN  SubSeq(out, k + 1, Len(out))

\* C8 as stated (Spec): the text the counting loop emits is
\* "1 2 3 4 5 6 7 8 9 10", nothing following the final 10 but the newline.
C8_NothingAfterTen ==
    /\ pc = "L72" => Concat(CountingText) = "1 2 3 4 5 6 7 8 9 10"
    /\ pc = "L75" => Concat(CountingText) = "1 2 3 4 5 6 7 8 9 10\n"

\* C8 as amended (Spec): the counting loop emits 1 to 10 in increasing order,
\* each once and each followed by one space, the final 10 included: the text
\* is "1 2 3 4 5 6 7 8 9 10 ", and the newline follows that space.
C8_SpaceAfterEach ==
    /\ pc \in {"L68g", "L70", "L68i"} =>
           /\ IsPrefix(CountingText,
                       <<"1 ", "2 ", "3 ", "4 ", "5 ", "6 ", "7 ", "8 ", "9 ", "10 ">>)
           /\ Len(CountingText) = locals["i"] - (IF pc = "L68i" THEN 0 ELSE 1)
    /\ pc = "L72" =>
           /\ CountingText =
                  <<"1 ", "2 ", "3 ", "4 ", "5 ", "6 ", "7 ", "8 ", "9 ", "10 ">>
           /\ Concat(CountingText) = "1 2 3 4 5 6 7 8 9 10 "
    /\ pc = "L75" => Concat(CountingText) = "1 2 3 4 5 6 7 8 9 10 \n"

\* C8: the loop has ended, its last piece of output being "10 ".
C8_Witness ==
    pc = "L72" /\ Len(CountingText) = 10 /\ out[Len(out)] = "10 "

====
